---- MODULE Spec2Model ----
(***************************************************************************)
(* fhir-populate: loading of the configuration (src/main.py, lines 38-79), *)
(* assembly of the interlinked FHIR record graph (lines 81-485), the       *)
(* output file (lines 487-490) and the dependency-ordered publication to a *)
(* FHIR store (lines 514-1203), with the record builders of                *)
(* src/lib/resources/ and the response check of src/common.py.             *)
(*                                                                         *)
(* A record is modelled by its resource type, its identifier and its       *)
(* reference fields; a reference "Kind/id" is the pair of its kind and its  *)
(* identifier.  Scalar attributes and narrative text carry no reference    *)
(* and are left out.                                                       *)
(***************************************************************************)
EXTENDS Integers, Sequences, FiniteSets, TLC

VARIABLES
    config_file,   \* what load_config finds at the path          (main.py:38-58)
    config,        \* the loaded configuration document            (main.py:77)
    output_filename, \* main() was given an output file name      (main.py:61)
    fhir_server,   \* main() was given a FHIR server              (main.py:61)
    output,        \* the content of the output file              (main.py:488-490)
    fhir_version,  \* FHIR_VERSION as read by get_fhir_version     (common.py:101)
    fhir_bundle,   \* list name -> sequence of generated records   (main.py:82-112, 463)
    pc,            \* position of main()
    ki,            \* index of the per-patient block being executed
    pi,            \* index of the patient of the second per-patient loop
    todo,          \* iterations left of the current for-range loop, -1: not drawn
    step,          \* index of the publisher block being executed
    idx,           \* index of the next record of the current create loop
    id_maps,       \* resource type -> (local id -> server-assigned id)
    store,         \* the records the FHIR store holds
    last,          \* the latest create call and its response
    submitted,     \* the records as they were sent in a create call
    reported,      \* the "Created <type> with ID: <id>" lines printed
    failures,      \* the exceptions raised by the publisher
    silent,        \* rejections the store answered without an error issue
    ops,           \* transport operations called so far
    replay,        \* two assembly runs started from one random seed
    fhir_validate  \* FHIR_VALIDATE is set to true, 1, yes or on

vars == <<config_file, config, output_filename, fhir_server, output, fhir_version, fhir_bundle,
          pc, ki, pi, todo, step, idx, id_maps, store, last, submitted, reported,
          failures, silent, ops, replay, fhir_validate>>

(***************************************************************************)
(* Identifiers.  str(uuid.uuid4()) is unique per call: the n-th record of  *)
(* a kind gets LocalId(kind, n); a uuid drawn inline for a reference that  *)
(* no record ever receives is a FreshId; the store assigns StoreId.        *)
(***************************************************************************)
NoneId == [src |-> "none", kind |-> "", n |-> 0]
LocalId(kind, n) == [src |-> "local", kind |-> kind, n |-> n]
FreshId(kind, n) == [src |-> "fresh", kind |-> kind, n |-> n]
CatalogId(kind) == [src |-> "catalog", kind |-> kind, n |-> 0]
StoreId(kind, n) == [src |-> "store", kind |-> kind, n |-> n]

\* f"{kind}/{id}"; w counts the assignments the publisher made to the field.
Ref(kind, id) == [kind |-> kind, id |-> id, w |-> 0]

\* reference.split('/')[1]
SplitId(ref) == ref.id

\* field['reference'] = f"{kind}/{server_id}"
Assign(ref, kind, server_id) == [kind |-> kind, id |-> server_id, w |-> ref.w + 1]

NoRefs == [p \in {} |-> Ref("", NoneId)]

Resource(rtype, id, refs) == [resourceType |-> rtype, id |-> id, refs |-> refs]

\* a reference added only when the optional identifier was passed
Opt(path, kind, id) == IF id = NoneId THEN NoRefs ELSE path :> Ref(kind, id)

(***************************************************************************)
(* Record builders (src/lib/resources/*.py).                               *)
(***************************************************************************)
\* the clinic and its location, returned as a pair
generate_clinic_and_location(clinic_id, location_id) ==
    [clinic |-> Resource("Organization", clinic_id, NoRefs),
     location |-> Resource("Location", location_id,
                           "managingOrganization" :> Ref("Organization", clinic_id))]

generate_practitioner(id) == Resource("Practitioner", id, NoRefs)

generate_patient(id) == Resource("Patient", id, NoRefs)

generate_condition(id, patient_id) ==
    Resource("Condition", id, "subject" :> Ref("Patient", patient_id))

\* the builders of the patient_configs path: the given attributes are scalars
generate_patient_custom(id) == Resource("Patient", id, NoRefs)

generate_condition_custom(id, patient_id) ==
    Resource("Condition", id, "subject" :> Ref("Patient", patient_id))

generate_appointment(id, patient_id, practitioner_id, location_id) ==
    Resource("Appointment", id,
             "participant[0].actor" :> Ref("Patient", patient_id)
          @@ "participant[1].actor" :> Ref("Practitioner", practitioner_id)
          @@ "participant[2].actor" :> Ref("Location", location_id))

generate_medication_request(id, patient_id, practitioner_id) ==
    Resource("MedicationRequest", id,
             "subject" :> Ref("Patient", patient_id)
          @@ "requester" :> Ref("Practitioner", practitioner_id))

\* called at main.py:142-146 with the patient, a practitioner and the name of
\* the medication; the function is not in src/lib/resources/medication.py
generate_medication_request_custom(id, patient_id, practitioner_id) ==
    Resource("MedicationRequest", id,
             "subject" :> Ref("Patient", patient_id)
          @@ "requester" :> Ref("Practitioner", practitioner_id))

generate_encounter(id, patient_id, practitioner_id, location_id, organization_id) ==
    Resource("Encounter", id,
             "subject" :> Ref("Patient", patient_id)
          @@ "serviceProvider" :> Ref("Organization", organization_id)
          @@ "location[0].location" :> Ref("Location", location_id)
          @@ "participant[0].actor" :> Ref("Practitioner", practitioner_id))

OBSERVATION_STATUSES ==
    {"registered", "preliminary", "final", "amended", "cancelled",
     "entered-in-error", "unknown"}

generate_observation(id, patient_id, practitioner_id, status) ==
    Resource("Observation", id,
             "subject" :> Ref("Patient", patient_id)
          @@ (IF practitioner_id # NoneId /\ status # "entered-in-error"
              THEN "performer[0]" :> Ref("Practitioner", practitioner_id)
              ELSE NoRefs))

generate_procedure(id, patient_id, practitioner_id) ==
    Resource("Procedure", id,
             "subject" :> Ref("Patient", patient_id)
          @@ "performer[0].actor" :> Ref("Practitioner", practitioner_id))

generate_binary_resource(id) == Resource("Binary", id, NoRefs)

\* a document reference whose attachment names the note's own identifier
generate_document_reference_unattached(id, patient_id, practitioner_id, encounter_id, binary_id, attested) ==
    Resource("DocumentReference", id,
             "subject" :> Ref("Patient", patient_id)
          @@ "author[0]" :> Ref("Practitioner", practitioner_id)
          @@ "context" :> Ref("Encounter", encounter_id)
          @@ "content[0].attachment.url" :> Ref("Binary", id))

generate_document_reference(id, patient_id, practitioner_id, encounter_id, binary_id, attested) ==
    Resource("DocumentReference", id,
             "subject" :> Ref("Patient", patient_id)
          @@ "author[0]" :> Ref("Practitioner", practitioner_id)
          @@ "context" :> Ref("Encounter", encounter_id)
          @@ "content[0].attachment.url" :> Ref("Binary", binary_id)
          @@ (IF attested
              THEN "attester[0].party" :> Ref("Practitioner", practitioner_id)
              ELSE NoRefs))

\* result_references: at most three observations are sampled (main.py:331)
ResultPath == <<"result[0]", "result[1]", "result[2]">>

generate_diagnostic_report(id, patient_id, practitioner_id, encounter_id, observation_ids) ==
    Resource("DiagnosticReport", id,
             "subject" :> Ref("Patient", patient_id)
          @@ "encounter" :> Ref("Encounter", encounter_id)
          @@ "performer[0]" :> Ref("Practitioner", practitioner_id)
          @@ [p \in {ResultPath[i] : i \in DOMAIN observation_ids} |->
                 Ref("Observation",
                     observation_ids[CHOOSE i \in DOMAIN observation_ids :
                                         ResultPath[i] = p])])

generate_service_request(id, patient_id, practitioner_id, encounter_id) ==
    Resource("ServiceRequest", id,
             "subject" :> Ref("Patient", patient_id)
          @@ "requester" :> Ref("Practitioner", practitioner_id)
          @@ Opt("encounter", "Encounter", encounter_id))

generate_clinical_impression(id, version, patient_id, practitioner_id, encounter_id) ==
    Resource("ClinicalImpression", id,
             "subject" :> Ref("Patient", patient_id)
          @@ (IF version = "R4"
              THEN "assessor" :> Ref("Practitioner", practitioner_id)
              ELSE "performer" :> Ref("Practitioner", practitioner_id))
          @@ Opt("encounter", "Encounter", encounter_id))

generate_family_member_history(id, version, patient_id, practitioner_id) ==
    Resource("FamilyMemberHistory", id,
             "patient" :> Ref("Patient", patient_id)
          @@ (IF practitioner_id # NoneId /\ version # "R4"
              THEN "participant[0].actor" :> Ref("Practitioner", practitioner_id)
              ELSE NoRefs))

generate_immunization(id, patient_id, practitioner_id, encounter_id, location_id, reaction) ==
    Resource("Immunization", id,
             "manufacturer" :> Ref("Organization", CatalogId("Organization"))
          @@ "patient" :> Ref("Patient", patient_id)
          @@ "performer[0].actor" :> Ref("Practitioner", practitioner_id)
          @@ "performer[1].actor" :> Ref("Practitioner", practitioner_id)
          @@ "reason[0].reference" :> Ref("Observation", FreshId("Observation", 1))
          @@ Opt("encounter", "Encounter", encounter_id)
          @@ Opt("location", "Location", location_id)
          @@ (IF reaction
              THEN "reaction[0].manifestation.reference" :>
                       Ref("Observation", FreshId("Observation", 2))
              ELSE NoRefs))

generate_medication_administration(id, version, patient_id, practitioner_id, medication_request_id, encounter_id) ==
    Resource("MedicationAdministration", id,
             Opt("contained[1].target[0]", "MedicationRequest", medication_request_id)
          @@ "contained[1].agent[0].who" :> Ref("Practitioner", practitioner_id)
          @@ "contained[1].signature[0].who" :> Ref("Practitioner", practitioner_id)
          @@ "subject" :> Ref("Patient", patient_id)
          @@ "performer[0].actor" :> Ref("Practitioner", practitioner_id)
          @@ (IF version = "R4"
              THEN Opt("context", "Encounter", encounter_id)
              ELSE Opt("encounter", "Encounter", encounter_id))
          @@ Opt("request", "MedicationRequest", medication_request_id))

generate_allergy_intolerance(id, version, patient_id, practitioner_id) ==
    Resource("AllergyIntolerance", id,
             "patient" :> Ref("Patient", patient_id)
          @@ (IF practitioner_id # NoneId /\ version # "R4"
              THEN "participant[0].actor" :> Ref("Practitioner", practitioner_id)
              ELSE NoRefs))

generate_allergy_intolerance_custom(id, version, patient_id, practitioner_id) ==
    Resource("AllergyIntolerance", id,
             "patient" :> Ref("Patient", patient_id)
          @@ (IF practitioner_id # NoneId /\ version # "R4"
              THEN "participant[0].actor" :> Ref("Practitioner", practitioner_id)
              ELSE NoRefs))

\* CARE_PLAN_ACTIVITY_DETAILS[*]['kind'] (src/lib/data/care_plans.py:422-457)
CARE_PLAN_ACTIVITY_KINDS ==
    {"Appointment", "CommunicationRequest", "DeviceRequest", "MedicationRequest",
     "NutritionOrder", "ServiceRequest", "Task", "VisionPrescription"}

\* condition_id is accepted and never used.  goals (1 to 3 entries) and
\* activities (2 to 5 entries) are lists whose entries are all built by the
\* same expression, a reference to a uuid drawn on the spot: "goal[*]" and
\* "activity[*].plannedActivityReference" stand for each of their entries.
generate_care_plan(id, patient_id, practitioner_id, encounter_id, condition_id, activity_kind) ==
    Resource("CarePlan", id,
             "contained[0].subject" :> Ref("Patient", patient_id)
          @@ "subject" :> Ref("Patient", patient_id)
          @@ "custodian" :> Ref("Practitioner", practitioner_id)
          @@ "careTeam[0]" :> Ref("CareTeam", FreshId("CareTeam", 1))
          @@ "goal[*]" :> Ref("Goal", FreshId("Goal", 1))
          @@ "activity[*].plannedActivityReference" :>
                 Ref(activity_kind, FreshId(activity_kind, 1))
          @@ Opt("encounter", "Encounter", encounter_id))

generate_coverage(id, version, patient_id, organization_id, policy_holder_id) ==
    Resource("Coverage", id,
             (IF policy_holder_id # NoneId /\ policy_holder_id # patient_id
              THEN "policyHolder" :> Ref("Patient", policy_holder_id)
              ELSE "policyHolder" :> Ref("Organization", organization_id))
          @@ "subscriber" :> Ref("Patient", patient_id)
          @@ "beneficiary" :> Ref("Patient", patient_id)
          @@ (IF version = "R4"
              THEN "payor[0]" :> Ref("Organization", organization_id)
              ELSE "insurer" :> Ref("Organization", organization_id)))

(***************************************************************************)
(* Configuration (main.py:76-79) and the random draws of main().           *)
(***************************************************************************)
\* dict.get(key, default)
Get(d, key, default) == IF key \in DOMAIN d THEN d[key] ELSE default

\* the per-patient blocks of the patient_configs loop (main.py:130-221), of
\* the first patient loop (main.py:229-313) and of the second one
\* (main.py:317-460), in program order
Block0 == <<"conditions", "medication_requests", "allergy_intolerances",
            "appointments", "encounters", "observations", "procedures">>
Block1 == <<"conditions", "appointments", "medication_requests", "encounters",
            "observations", "procedures">>
Block2 == <<"diagnostic_reports", "service_requests", "clinical_impressions",
            "family_member_histories", "immunizations",
            "medication_administrations", "allergy_intolerances", "care_plans",
            "coverages">>

PerPatientKeys == {Block1[i] : i \in DOMAIN Block1} \cup {Block2[i] : i \in DOMAIN Block2}

\* the literal defaults of the per_patient.get(...) calls; probabilities in percent
DEFAULT_PER_PATIENT ==
    [conditions |-> [min |-> 1, max |-> 3],
     appointments |-> [min |-> 1, max |-> 5],
     medication_requests |-> [min |-> 1, max |-> 4],
     encounters |-> [min |-> 1, max |-> 4, document_reference_probability |-> 80],
     observations |-> [min |-> 2, max |-> 6],
     procedures |-> [min |-> 1, max |-> 3],
     diagnostic_reports |-> [min |-> 1, max |-> 2],
     service_requests |-> [min |-> 1, max |-> 3],
     clinical_impressions |-> [min |-> 1, max |-> 2],
     family_member_histories |-> [min |-> 2, max |-> 4],
     immunizations |-> [min |-> 1, max |-> 3],
     medication_administrations |-> [min |-> 2, max |-> 5],
     allergy_intolerances |-> [min |-> 1, max |-> 4],
     care_plans |-> [min |-> 1, max |-> 3],
     coverages |-> [min |-> 1, max |-> 2]]

DEFAULT_BASE_COUNTS == [clinics |-> 3, practitioners |-> 10, patients |-> 25]

\* the defaults of the patient_config.get(...) calls, by list (main.py:130-216)
DEFAULT_PATIENT_CONFIG ==
    [conditions |-> <<>>, medication_requests |-> <<>>, allergy_intolerances |-> <<>>,
     appointments |-> 1, encounters |-> 1, observations |-> 2, procedures |-> 1]

\* the key of a patient_config that gives the records of a list
PatientConfigKey(key) ==
    CASE key = "medication_requests" -> "medications"
      [] key = "allergy_intolerances" -> "allergies"
      [] OTHER -> key

\* random.random() < p, p in percent: random() lies in [0, 1)
Chance(p) == IF p <= 0 THEN {FALSE} ELSE IF p >= 100 THEN {TRUE} ELSE BOOLEAN

\* the elements random.choice(seq) can return
Choice(seq) == {seq[i] : i \in DOMAIN seq}

\* random.sample(seq, k): k distinct positions, in any order
Sample(seq, k) ==
    {[i \in 1..k |-> seq[f[i]]] :
        f \in {g \in [1..k -> DOMAIN seq] : \A a, b \in 1..k : a # b => g[a] # g[b]}}

Min(a, b) == IF a <= b THEN a ELSE b

(***************************************************************************)
(* The configurations explored.  Each one switches on the per-patient      *)
(* kinds of one block of main() together with the kinds they refer to;     *)
(* NumPatients patients are generated for the kinds that refer to patients *)
(* and practitioners only, one patient for the others.                     *)
(***************************************************************************)
NumPatients == 1
MaxSilent == 1

Range(lo, hi) == [min |-> lo, max |-> hi]

PerPatient(on, probability) ==
    [k \in PerPatientKeys |->
        IF k = "encounters"
        THEN [min |-> IF k \in on THEN 1 ELSE 0, max |-> IF k \in on THEN 1 ELSE 0,
              document_reference_probability |-> probability]
        ELSE IF k \in on THEN Range(1, 1) ELSE Range(0, 0)]

Profile(patients, on, probability) ==
    [base_counts |-> [clinics |-> 1, practitioners |-> 1, patients |-> patients],
     per_patient |-> PerPatient(on, probability)]

\* the configuration with one patient_config
Override(document, given) ==
    [base_counts |-> document.base_counts, per_patient |-> document.per_patient,
     patient_configs |-> <<given>>]

Configs ==
    { Profile(NumPatients, {"conditions", "appointments", "procedures"}, 0),
      Profile(NumPatients, {"family_member_histories", "allergy_intolerances"}, 0),
      \* a policy holder other than the beneficiary needs a second patient
      Profile(2, {"coverages"}, 0),
      Profile(1, {"encounters", "observations", "diagnostic_reports"}, 50),
      Profile(1, {"encounters", "service_requests", "clinical_impressions"}, 0),
      Profile(1, {"encounters", "immunizations"}, 0),
      Profile(1, {"medication_requests", "encounters", "medication_administrations"}, 0),
      Profile(1, {"conditions", "care_plans"}, 0),
      \* two explicit conditions and one appointment for the only patient, the
      \* ranges of the explicit kinds being zero as app.py writes them
      Override(Profile(1, {}, 0),
               [conditions |-> <<"I10", "E11.9">>, medications |-> <<>>,
                allergies |-> <<>>, appointments |-> 1, encounters |-> 0,
                observations |-> 0, procedures |-> 0]),
      \* one explicit condition, medication and allergy, with a per_patient
      \* range for allergy intolerances
      Override(Profile(1, {"allergy_intolerances"}, 0),
               [conditions |-> <<"I10">>, medications |-> <<"Lisinopril">>,
                allergies |-> <<"Penicillin">>, appointments |-> 0, encounters |-> 0,
                observations |-> 0, procedures |-> 0]),
      \* a medication request of another patient needs a second patient
      Profile(2, {"medication_requests", "medication_administrations"}, 0),
      \* two encounters, a document reference for each
      [Profile(1, {"encounters"}, 100) EXCEPT
           !.per_patient["encounters"].min = 2, !.per_patient["encounters"].max = 2],
      \* a document reference probability above 1
      Profile(1, {"encounters"}, 150),
      \* diagnostic reports for a patient without encounters
      Profile(1, {"diagnostic_reports"}, 0),
      \* a range with more than one value
      [Profile(1, {}, 0) EXCEPT !.per_patient["conditions"] = Range(0, 2)],
      \* appointments without any practitioner, without any location
      [Profile(1, {"appointments"}, 0) EXCEPT !.base_counts["practitioners"] = 0],
      [Profile(1, {"appointments"}, 0) EXCEPT !.base_counts["clinics"] = 0],
      \* care plans without any condition to draw from
      Profile(1, {"care_plans"}, 0),
      \* a range whose min exceeds its max
      [Profile(1, {}, 0) EXCEPT !.per_patient["conditions"] = Range(2, 1)] }

ListNames ==
    {"patients", "practitioners", "clinics", "locations", "binaries",
     "document_references"} \cup PerPatientKeys

base_counts == Get(config, "base_counts", <<>>)
per_patient == Get(config, "per_patient", <<>>)
num_clinics == Get(base_counts, "clinics", DEFAULT_BASE_COUNTS.clinics)
num_practitioners == Get(base_counts, "practitioners", DEFAULT_BASE_COUNTS.practitioners)
patient_configs == Get(config, "patient_configs", <<>>)
num_patients ==
    IF patient_configs # <<>> THEN Len(patient_configs)
    ELSE Get(base_counts, "patients", DEFAULT_BASE_COUNTS.patients)

clinics == fhir_bundle["clinics"]
locations == fhir_bundle["locations"]
practitioners == fhir_bundle["practitioners"]
patients == fhir_bundle["patients"]

(***************************************************************************)
(* Position of main() within the generation loops.  A for-range loop with  *)
(* no iteration is passed over.                                            *)
(***************************************************************************)
At(label, p, k) == [pc |-> label, pi |-> p, ki |-> k, todo |-> -1]

EnterCombine == At("combine", 0, 0)
EnterExtras == IF num_patients <= 0 THEN EnterCombine ELSE At("extras", 1, 1)
EnterPatients ==
    IF patient_configs # <<>> THEN At("overrides", 0, 0)
    ELSE IF num_patients <= 0 THEN EnterExtras ELSE At("patients", 0, 0)
EnterPractitioners ==
    IF num_practitioners <= 0 THEN EnterPatients ELSE At("practitioners", 0, 0)
EnterClinics == IF num_clinics <= 0 THEN EnterPractitioners ELSE At("clinics", 0, 0)

Goto(pos) == pc' = pos.pc /\ pi' = pos.pi /\ ki' = pos.ki /\ todo' = pos.todo

CurrentKey ==
    CASE pc = "overrides" -> Block0[ki]
      [] pc = "patients" -> Block1[ki]
      [] OTHER -> Block2[ki]

\* the patient of the current iteration of the patient loop
patient ==
    IF pc \in {"overrides", "patients"} THEN patients[Len(patients)] ELSE patients[pi]

\* the patient_config of the current iteration of the patient_configs loop
patient_config == patient_configs[Len(patients)]

\* where main() continues when the for-range loop of the current block ends
AfterBlock ==
    IF pc = "overrides"
    THEN IF ki < Len(Block0) THEN At("overrides", 0, ki + 1)
         ELSE IF Len(patients) < Len(patient_configs) THEN At("overrides", 0, 0)
         ELSE EnterExtras
    ELSE IF pc = "patients"
    THEN IF ki < Len(Block1) THEN At("patients", 0, ki + 1)
         ELSE IF Len(patients) < num_patients THEN At("patients", 0, 0)
         ELSE EnterExtras
    ELSE IF ki < Len(Block2) THEN At("extras", pi, ki + 1)
         ELSE IF pi < Len(patients) THEN At("extras", pi + 1, 1)
         ELSE EnterCombine

pubVars == <<step, idx, id_maps, store, last, submitted, reported, failures,
             silent, ops, output>>

genVars ==
    <<config_file, config, fhir_version, output_filename, fhir_server, replay, fhir_validate>>

NewId(rtype, list) == LocalId(rtype, Len(fhir_bundle[list]) + 1)

NoAdd == [l \in {} |-> <<>>]

Extend(bundle, add) ==
    [l \in DOMAIN bundle |-> IF l \in DOMAIN add THEN bundle[l] \o add[l] ELSE bundle[l]]

\* the dictionary main() holds before load_config has returned
NoConfig == <<>>

\* load_config (main.py:38-58): FileNotFoundError for a missing file, a
\* JSONDecodeError of json.load for a file that is not JSON; main.py:77
LoadConfig ==
    /\ pc = "load"
    /\ IF config_file = "document"
       THEN Goto(EnterClinics)
       ELSE pc' = "crashed" /\ UNCHANGED <<pi, ki, todo>>
    /\ UNCHANGED <<genVars, fhir_bundle>>
    /\ UNCHANGED pubVars

\* main.py:81-88
GenerateClinic ==
    /\ pc = "clinics"
    /\ LET pair == generate_clinic_and_location(NewId("Organization", "clinics"),
                                                NewId("Location", "locations"))
       IN fhir_bundle' = Extend(fhir_bundle,
              "clinics" :> <<pair.clinic>> @@ "locations" :> <<pair.location>>)
    /\ IF Len(clinics) + 1 >= num_clinics
       THEN Goto(EnterPractitioners)
       ELSE UNCHANGED <<pc, pi, ki, todo>>
    /\ UNCHANGED genVars
    /\ UNCHANGED pubVars

\* main.py:90-92
GeneratePractitioner ==
    /\ pc = "practitioners"
    /\ fhir_bundle' = Extend(fhir_bundle,
           "practitioners" :> <<generate_practitioner(NewId("Practitioner", "practitioners"))>>)
    /\ IF Len(practitioners) + 1 >= num_practitioners
       THEN Goto(EnterPatients)
       ELSE UNCHANGED <<pc, pi, ki, todo>>
    /\ UNCHANGED genVars
    /\ UNCHANGED pubVars

\* main.py:121-127
GeneratePatientCustom ==
    /\ pc = "overrides" /\ ki = 0
    /\ fhir_bundle' = Extend(fhir_bundle,
           "patients" :> <<generate_patient_custom(NewId("Patient", "patients"))>>)
    /\ Goto(At("overrides", 0, 1))
    /\ UNCHANGED genVars
    /\ UNCHANGED pubVars

\* main.py:225-227
GeneratePatient ==
    /\ pc = "patients" /\ ki = 0
    /\ fhir_bundle' = Extend(fhir_bundle,
           "patients" :> <<generate_patient(NewId("Patient", "patients"))>>)
    /\ Goto(At("patients", 0, 1))
    /\ UNCHANGED genVars
    /\ UNCHANGED pubVars

\* [e for e in encounters if e['subject']['reference'].endswith(f"/{patient['id']}")]
patient_encounters_for_patient ==
    SelectSeq(fhir_bundle["encounters"], LAMBDA e : SplitId(e.refs["subject"]) = patient.id)

\* [obs for obs in observations if obs['subject']['reference'] == f"Patient/{patient['id']}"]
patient_observations ==
    SelectSeq(fhir_bundle["observations"],
              LAMBDA o : o.refs["subject"].kind = "Patient" /\ o.refs["subject"].id = patient.id)

\* the block is entered: the diagnostic reports loop only for a patient with
\* encounters (main.py:322)
Entered(key) == key = "diagnostic_reports" => patient_encounters_for_patient # <<>>

CountConfig(key) == Get(per_patient, key, DEFAULT_PER_PATIENT[key])

\* for _ in range(random.randint(cfg['min'], cfg['max'])): the count is drawn
DrawCount ==
    /\ pc \in {"patients", "extras"} /\ ki >= 1 /\ todo = -1
    /\ IF ~Entered(CurrentKey)
       THEN Goto(AfterBlock)
       ELSE /\ CountConfig(CurrentKey).min <= CountConfig(CurrentKey).max
            /\ \E n \in CountConfig(CurrentKey).min .. CountConfig(CurrentKey).max :
                   IF n <= 0 THEN Goto(AfterBlock)
                   ELSE todo' = n /\ UNCHANGED <<pc, pi, ki>>
    /\ UNCHANGED <<genVars, fhir_bundle>>
    /\ UNCHANGED pubVars

\* the records the patient_config asks for: the length of an explicit list
\* (for ... in patient_config.get('conditions', [])), or a number of records
\* (for _ in range(patient_config.get('appointments', 1)))
OverrideCount(key) ==
    LET given == Get(patient_config, PatientConfigKey(key), DEFAULT_PATIENT_CONFIG[key])
    IN IF key \in {"conditions", "medication_requests", "allergy_intolerances"}
       THEN Len(given) ELSE given

\* a loop of the patient_configs path is entered
ReadCount ==
    /\ pc = "overrides" /\ ki >= 1 /\ todo = -1
    /\ IF OverrideCount(CurrentKey) <= 0
       THEN Goto(AfterBlock)
       ELSE todo' = OverrideCount(CurrentKey) /\ UNCHANGED <<pc, pi, ki>>
    /\ UNCHANGED <<genVars, fhir_bundle>>
    /\ UNCHANGED pubVars

\* random.randint(a, b) with a > b raises ValueError
RaiseValueError ==
    /\ pc \in {"patients", "extras"} /\ ki >= 1 /\ todo = -1
    /\ Entered(CurrentKey)
    /\ CountConfig(CurrentKey).min > CountConfig(CurrentKey).max
    /\ pc' = "crashed"
    /\ UNCHANGED <<genVars, fhir_bundle, pi, ki, todo>>
    /\ UNCHANGED pubVars

(***************************************************************************)
(* One iteration of each per-patient block: the records it can append.     *)
(***************************************************************************)
Ids(seq) == {r.id : r \in Choice(seq)}

\* random.choice(seq) if <draw> else None
OptIds(seq) == {NoneId} \cup Ids(seq)

\* random.choice(patient_encounters_for_patient)
\*     if patient_encounters_for_patient and <draw> else None
OptEncounterIds == {NoneId} \cup Ids(patient_encounters_for_patient)

ConditionOutcomes ==
    {"conditions" :> <<generate_condition(NewId("Condition", "conditions"), patient.id)>>}

AppointmentOutcomes ==
    {"appointments" :> <<generate_appointment(NewId("Appointment", "appointments"),
                                              patient.id, pr, loc)>> :
        pr \in Ids(practitioners), loc \in Ids(locations)}

MedicationRequestOutcomes ==
    {"medication_requests" :>
         <<generate_medication_request(NewId("MedicationRequest", "medication_requests"),
                                       patient.id, pr)>> :
        pr \in Ids(practitioners)}

doc_ref_probability ==
    Get(CountConfig("encounters"), "document_reference_probability",
        DEFAULT_PER_PATIENT.encounters.document_reference_probability)

EncounterOutcomes ==
    {"encounters" :> <<generate_encounter(NewId("Encounter", "encounters"),
                                          patient.id, pr, loc, org)>>
     @@ (IF noted
         THEN "binaries" :> <<generate_binary_resource(NewId("Binary", "binaries"))>>
           @@ "document_references" :>
                <<generate_document_reference(
                      NewId("DocumentReference", "document_references"), patient.id, pr,
                      NewId("Encounter", "encounters"), NewId("Binary", "binaries"),
                      attested)>>
         ELSE NoAdd) :
        pr \in Ids(practitioners), loc \in Ids(locations), org \in Ids(clinics),
        noted \in Chance(doc_ref_probability), attested \in Chance(70)}

ObservationOutcomes ==
    {"observations" :> <<generate_observation(NewId("Observation", "observations"),
                                              patient.id, pr, status)>> :
        pr \in Ids(practitioners), status \in OBSERVATION_STATUSES}

ProcedureOutcomes ==
    {"procedures" :> <<generate_procedure(NewId("Procedure", "procedures"),
                                          patient.id, pr)>> :
        pr \in Ids(practitioners)}

\* observation_ids = [obs['id'] for obs in random.sample(patient_observations,
\*     min(3, len(patient_observations)))] if patient_observations else []
ObservationIdLists ==
    {[i \in DOMAIN picked |-> picked[i].id] :
        picked \in Sample(patient_observations, Min(3, Len(patient_observations)))}

DiagnosticReportOutcomes ==
    {"diagnostic_reports" :>
         <<generate_diagnostic_report(NewId("DiagnosticReport", "diagnostic_reports"),
                                      patient.id, pr, enc, obs)>> :
        pr \in Ids(practitioners), enc \in Ids(patient_encounters_for_patient),
        obs \in ObservationIdLists}

ServiceRequestOutcomes ==
    {"service_requests" :>
         <<generate_service_request(NewId("ServiceRequest", "service_requests"),
                                    patient.id, pr, enc)>> :
        pr \in Ids(practitioners), enc \in OptEncounterIds}

ClinicalImpressionOutcomes ==
    {"clinical_impressions" :>
         <<generate_clinical_impression(NewId("ClinicalImpression", "clinical_impressions"),
                                        fhir_version, patient.id, pr, enc)>> :
        pr \in Ids(practitioners), enc \in OptEncounterIds}

FamilyMemberHistoryOutcomes ==
    {"family_member_histories" :>
         <<generate_family_member_history(
               NewId("FamilyMemberHistory", "family_member_histories"),
               fhir_version, patient.id, pr)>> :
        pr \in OptIds(practitioners)}

ImmunizationOutcomes ==
    {"immunizations" :>
         <<generate_immunization(NewId("Immunization", "immunizations"),
                                 patient.id, pr, enc, loc, reaction)>> :
        pr \in Ids(practitioners), enc \in OptEncounterIds,
        loc \in OptIds(locations), reaction \in Chance(30)}

\* the medication request is drawn from the requests of all patients
MedicationAdministrationOutcomes ==
    {"medication_administrations" :>
         <<generate_medication_administration(
               NewId("MedicationAdministration", "medication_administrations"),
               fhir_version, patient.id, pr, req, enc)>> :
        pr \in Ids(practitioners), enc \in OptEncounterIds,
        req \in OptIds(fhir_bundle["medication_requests"])}

AllergyIntoleranceOutcomes ==
    {"allergy_intolerances" :>
         <<generate_allergy_intolerance(NewId("AllergyIntolerance", "allergy_intolerances"),
                                        fhir_version, patient.id, pr)>> :
        pr \in OptIds(practitioners)}

\* the condition is drawn from the conditions of all patients
CarePlanOutcomes ==
    {"care_plans" :>
         <<generate_care_plan(NewId("CarePlan", "care_plans"), patient.id, pr, enc,
                              cond, kind)>> :
        pr \in Ids(practitioners), enc \in OptEncounterIds,
        cond \in OptIds(fhir_bundle["conditions"]), kind \in CARE_PLAN_ACTIVITY_KINDS}

CoverageOutcomes ==
    {"coverages" :>
         <<generate_coverage(NewId("Coverage", "coverages"), fhir_version, patient.id,
                             org, holder)>> :
        org \in Ids(clinics), holder \in OptIds(patients)}

\* the lists a block draws from with random.choice: an empty one raises
\* IndexError when the draw is made
Pools(key) ==
    CASE key = "conditions" -> {}
      [] key \in {"appointments", "immunizations"} -> {"practitioners", "locations"}
      [] key = "encounters" -> {"practitioners", "locations", "clinics"}
      [] key = "medication_administrations" -> {"practitioners", "medication_requests"}
      [] key = "care_plans" -> {"practitioners", "conditions"}
      [] key = "coverages" -> {"clinics"}
      [] OTHER -> {"practitioners"}

RaisesIndexError(key) == \E l \in Pools(key) : fhir_bundle[l] = <<>>

\* the lists the patient_configs path fills with builders of its own
CustomKeys == {"conditions", "medication_requests", "allergy_intolerances"}

Building(key) ==
    /\ pc \in {"overrides", "patients", "extras"} /\ ki >= 1 /\ todo > 0
    /\ CurrentKey = key
    /\ pc = "overrides" => key \notin CustomKeys

\* one iteration of a loop over an explicit list of the patient_configs path
BuildCustom(key, outcomes) ==
    /\ pc = "overrides" /\ ki >= 1 /\ todo > 0
    /\ CurrentKey = key
    /\ \E add \in outcomes : fhir_bundle' = Extend(fhir_bundle, add)
    /\ IF todo = 1 THEN Goto(AfterBlock)
       ELSE todo' = todo - 1 /\ UNCHANGED <<pc, pi, ki>>
    /\ UNCHANGED genVars
    /\ UNCHANGED pubVars

\* main.py:130-136
GenerateConditionCustom ==
    BuildCustom("conditions",
        {"conditions" :> <<generate_condition_custom(NewId("Condition", "conditions"),
                                                      patient.id)>>})

\* main.py:139-147
GenerateMedicationRequestCustom ==
    BuildCustom("medication_requests",
        {"medication_requests" :>
             <<generate_medication_request_custom(
                   NewId("MedicationRequest", "medication_requests"), patient.id, pr)>> :
            pr \in Ids(practitioners)})

\* main.py:150-157
GenerateAllergyIntoleranceCustom ==
    BuildCustom("allergy_intolerances",
        {"allergy_intolerances" :>
             <<generate_allergy_intolerance_custom(
                   NewId("AllergyIntolerance", "allergy_intolerances"), fhir_version,
                   patient.id, pr)>> :
            pr \in OptIds(practitioners)})

\* one iteration of the for-range loop of the block of <key>
Build(key, outcomes) ==
    /\ Building(key)
    /\ \E add \in outcomes : fhir_bundle' = Extend(fhir_bundle, add)
    /\ IF todo = 1 THEN Goto(AfterBlock)
       ELSE todo' = todo - 1 /\ UNCHANGED <<pc, pi, ki>>
    /\ UNCHANGED genVars
    /\ UNCHANGED pubVars

GenerateCondition == Build("conditions", ConditionOutcomes)
GenerateAppointment == Build("appointments", AppointmentOutcomes)
GenerateMedicationRequest == Build("medication_requests", MedicationRequestOutcomes)
GenerateEncounter == Build("encounters", EncounterOutcomes)
GenerateObservation == Build("observations", ObservationOutcomes)
GenerateProcedure == Build("procedures", ProcedureOutcomes)
GenerateDiagnosticReport == Build("diagnostic_reports", DiagnosticReportOutcomes)
GenerateServiceRequest == Build("service_requests", ServiceRequestOutcomes)
GenerateClinicalImpression == Build("clinical_impressions", ClinicalImpressionOutcomes)
GenerateFamilyMemberHistory ==
    Build("family_member_histories", FamilyMemberHistoryOutcomes)
GenerateImmunization == Build("immunizations", ImmunizationOutcomes)
GenerateMedicationAdministration ==
    Build("medication_administrations", MedicationAdministrationOutcomes)
GenerateAllergyIntolerance == Build("allergy_intolerances", AllergyIntoleranceOutcomes)
GenerateCarePlan == Build("care_plans", CarePlanOutcomes)
GenerateCoverage == Build("coverages", CoverageOutcomes)

\* random.choice on an empty list: IndexError, main() ends
RaiseIndexError ==
    /\ pc \in {"overrides", "patients", "extras"} /\ ki >= 1 /\ todo > 0
    /\ RaisesIndexError(CurrentKey)
    /\ pc' = "crashed"
    /\ UNCHANGED <<genVars, fhir_bundle, pi, ki, todo>>
    /\ UNCHANGED pubVars

(***************************************************************************)
(* Publication (main.py:514-1203).                                         *)
(***************************************************************************)
\* the blocks of the publisher in program order: a loop that rewrites the
\* references of a list, or a loop that creates the records of a list
Upd(rtype, key) == [op |-> "update", rtype |-> rtype, key |-> key]
Crt(rtype, key) == [op |-> "create", rtype |-> rtype, key |-> key]

PublishSteps ==
    << Crt("Organization", "clinics"),
       Upd("Location", "locations"), Crt("Location", "locations"),
       Crt("Patient", "patients"),
       Upd("Condition", "conditions"), Crt("Condition", "conditions"),
       Crt("Practitioner", "practitioners"),
       Upd("Appointment", "appointments"), Crt("Appointment", "appointments"),
       Upd("MedicationRequest", "medication_requests"),
       Upd("Procedure", "procedures"), Crt("Procedure", "procedures"),
       Upd("Observation", "observations"),
       Upd("Encounter", "encounters"), Crt("Encounter", "encounters"),
       Crt("Observation", "observations"),
       Crt("MedicationRequest", "medication_requests"),
       Upd("DiagnosticReport", "diagnostic_reports"),
       Crt("DiagnosticReport", "diagnostic_reports"),
       Upd("ServiceRequest", "service_requests"),
       Crt("ServiceRequest", "service_requests"),
       Upd("ClinicalImpression", "clinical_impressions"),
       Crt("ClinicalImpression", "clinical_impressions"),
       Upd("FamilyMemberHistory", "family_member_histories"),
       Crt("FamilyMemberHistory", "family_member_histories"),
       Upd("Immunization", "immunizations"), Crt("Immunization", "immunizations"),
       Upd("MedicationAdministration", "medication_administrations"),
       Crt("MedicationAdministration", "medication_administrations"),
       Upd("AllergyIntolerance", "allergy_intolerances"),
       Crt("AllergyIntolerance", "allergy_intolerances"),
       Upd("CarePlan", "care_plans"), Crt("CarePlan", "care_plans"),
       Upd("Coverage", "coverages"), Crt("Coverage", "coverages"),
       Crt("Binary", "binaries"),
       Upd("DocumentReference", "document_references"),
       Crt("DocumentReference", "document_references") >>

\* the resource types whose create loop fills an identifier map
MappedTypes ==
    {"Organization", "Location", "Patient", "Practitioner", "Encounter",
     "Observation", "MedicationRequest", "ServiceRequest", "Binary"}

EmptyMap == [i \in {} |-> NoneId]

(***************************************************************************)
(* The three ways main() rewrites a reference from an identifier map:      *)
(*   index: ref = f"K/{m[id]}"              (KeyError when id is not in m)  *)
(*   member: if id in m: ref = f"K/{m[id]}"                                *)
(*   get: v = m.get(id); if v: ref = f"K/{v}"                              *)
(* each applied when the field is present in the record.                   *)
(***************************************************************************)
Rule(path, mode, kind) == [path |-> path, mode |-> mode, kind |-> kind]

Applies(refs, rule, maps) ==
    /\ rule.path \in DOMAIN refs
    /\ LET m == maps[rule.kind]
           id == SplitId(refs[rule.path])
       IN CASE rule.mode = "index" -> TRUE
            [] rule.mode = "member" -> id \in DOMAIN m
            [] rule.mode = "get" -> id \in DOMAIN m /\ m[id] # NoneId

KeyError(refs, rule, maps) ==
    /\ rule.path \in DOMAIN refs
    /\ rule.mode = "index"
    /\ SplitId(refs[rule.path]) \notin DOMAIN maps[rule.kind]

ApplyRule(refs, rule, maps) ==
    IF Applies(refs, rule, maps) /\ ~KeyError(refs, rule, maps)
    THEN [refs EXCEPT ![rule.path] =
             Assign(@, rule.kind, maps[rule.kind][SplitId(refs[rule.path])])]
    ELSE refs

RECURSIVE ApplyRules(_, _, _)
ApplyRules(refs, rules, maps) ==
    IF rules = <<>> THEN refs
    ELSE ApplyRules(ApplyRule(refs, Head(rules), maps), Tail(rules), maps)

\* the rewrites of each update loop, in program order
LocationRules == <<Rule("managingOrganization", "index", "Organization")>>

ConditionRules == <<Rule("subject", "index", "Patient")>>

AppointmentRules ==
    <<Rule("participant[0].actor", "index", "Patient"),
      Rule("participant[1].actor", "index", "Practitioner"),
      Rule("participant[2].actor", "index", "Location")>>

MedicationRequestRules ==
    <<Rule("subject", "index", "Patient"), Rule("requester", "index", "Practitioner")>>

ProcedureRules ==
    <<Rule("subject", "index", "Patient"),
      Rule("performer[0].actor", "index", "Practitioner")>>

ObservationRules ==
    <<Rule("subject", "index", "Patient"), Rule("performer[0]", "index", "Practitioner")>>

\* participant_ref_key is 'individual' when the builder wrote that key, else 'actor'
EncounterRules ==
    <<Rule("subject", "index", "Patient"),
      Rule("participant[0].individual", "index", "Practitioner"),
      Rule("participant[0].actor", "index", "Practitioner"),
      Rule("location[0].location", "index", "Location"),
      Rule("serviceProvider", "index", "Organization")>>

DiagnosticReportRules ==
    <<Rule("subject", "index", "Patient"),
      Rule("performer[0]", "member", "Practitioner"),
      Rule("encounter", "get", "Encounter"),
      Rule("result[0]", "get", "Observation"),
      Rule("result[1]", "get", "Observation"),
      Rule("result[2]", "get", "Observation")>>

ServiceRequestRules ==
    <<Rule("subject", "index", "Patient"),
      Rule("requester", "member", "Practitioner"),
      Rule("encounter", "get", "Encounter")>>

\* practitioner_ref_key is 'assessor' when present, else 'performer'
ClinicalImpressionRules ==
    <<Rule("subject", "index", "Patient"),
      Rule("assessor", "member", "Practitioner"),
      Rule("performer", "member", "Practitioner"),
      Rule("encounter", "get", "Encounter")>>

FamilyMemberHistoryRules ==
    <<Rule("patient", "index", "Patient"), Rule("recorder", "member", "Practitioner")>>

ImmunizationRules ==
    <<Rule("patient", "index", "Patient"),
      Rule("performer[0].actor", "member", "Practitioner"),
      Rule("performer[1].actor", "member", "Practitioner"),
      Rule("encounter", "get", "Encounter"),
      Rule("location", "index", "Location")>>

MedicationAdministrationRules ==
    <<Rule("subject", "index", "Patient"),
      Rule("performer[0].actor", "member", "Practitioner"),
      Rule("context", "get", "Encounter"),
      Rule("encounter", "get", "Encounter"),
      Rule("request", "get", "MedicationRequest")>>

AllergyIntoleranceRules ==
    <<Rule("patient", "index", "Patient"), Rule("recorder", "member", "Practitioner")>>

CarePlanRules ==
    <<Rule("subject", "index", "Patient"),
      Rule("custodian", "member", "Practitioner"),
      Rule("encounter", "get", "Encounter"),
      Rule("contained[0].subject", "index", "Patient")>>

DocumentReferenceRules ==
    <<Rule("subject", "index", "Patient"),
      Rule("author[0]", "member", "Practitioner"),
      Rule("context", "get", "Encounter"),
      Rule("content[0].attachment.url", "get", "Binary"),
      Rule("attester[0].party", "member", "Practitioner")>>

\* the coverage loop: the beneficiary receives the subscriber's patient; a
\* policyHolder, payor or insurer is rewritten when it starts with
\* "Organization/" and is in the map; a policyHolder that starts with
\* "Patient/" is indexed
UpdateCoverage(refs, maps) ==
    LET server_patient_id == maps["Patient"][SplitId(refs["subscriber"])]
        r1 == [refs EXCEPT !["subscriber"] = Assign(@, "Patient", server_patient_id),
                           !["beneficiary"] = Assign(@, "Patient", server_patient_id)]
        org_holder == r1["policyHolder"].kind = "Organization"
                        /\ SplitId(r1["policyHolder"]) \in DOMAIN maps["Organization"]
        server_org_id == IF org_holder
                         THEN maps["Organization"][SplitId(r1["policyHolder"])]
                         ELSE NoneId
        r2 == IF org_holder
              THEN [r1 EXCEPT !["policyHolder"] = Assign(@, "Organization", server_org_id)]
              ELSE r1
        payer == IF "payor[0]" \in DOMAIN r2 THEN "payor[0]" ELSE "insurer"
        r3 == IF r2[payer].kind # "Organization" THEN r2
              ELSE IF SplitId(r2[payer]) \in DOMAIN maps["Organization"]
              THEN [r2 EXCEPT ![payer] =
                       Assign(@, "Organization", maps["Organization"][SplitId(r2[payer])])]
              ELSE IF server_org_id # NoneId
              THEN [r2 EXCEPT ![payer] = Assign(@, "Organization", server_org_id)]
              ELSE r2
    IN IF r3["policyHolder"].kind = "Patient"
       THEN [r3 EXCEPT !["policyHolder"] =
                Assign(@, "Patient", maps["Patient"][SplitId(r3["policyHolder"])])]
       ELSE r3

CoverageKeyError(refs, maps) ==
    \/ SplitId(refs["subscriber"]) \notin DOMAIN maps["Patient"]
    \/ /\ refs["policyHolder"].kind = "Patient"
       /\ SplitId(refs["policyHolder"]) \notin DOMAIN maps["Patient"]

UpdateRules(rtype) ==
    CASE rtype = "Location" -> LocationRules
      [] rtype = "Condition" -> ConditionRules
      [] rtype = "Appointment" -> AppointmentRules
      [] rtype = "MedicationRequest" -> MedicationRequestRules
      [] rtype = "Procedure" -> ProcedureRules
      [] rtype = "Observation" -> ObservationRules
      [] rtype = "Encounter" -> EncounterRules
      [] rtype = "DiagnosticReport" -> DiagnosticReportRules
      [] rtype = "ServiceRequest" -> ServiceRequestRules
      [] rtype = "ClinicalImpression" -> ClinicalImpressionRules
      [] rtype = "FamilyMemberHistory" -> FamilyMemberHistoryRules
      [] rtype = "Immunization" -> ImmunizationRules
      [] rtype = "MedicationAdministration" -> MedicationAdministrationRules
      [] rtype = "AllergyIntolerance" -> AllergyIntoleranceRules
      [] rtype = "CarePlan" -> CarePlanRules
      [] rtype = "DocumentReference" -> DocumentReferenceRules
      [] OTHER -> <<>>

\* the references of one record after its pass through the update loop
Updated(rtype, refs, maps) ==
    IF rtype = "Coverage" THEN UpdateCoverage(refs, maps)
    ELSE ApplyRules(refs, UpdateRules(rtype), maps)

\* a lookup of the loop fails for the record
UpdateRaises(rtype, refs, maps) ==
    IF rtype = "Coverage" THEN CoverageKeyError(refs, maps)
    ELSE \E i \in DOMAIN UpdateRules(rtype) : KeyError(refs, UpdateRules(rtype)[i], maps)

(***************************************************************************)
(* The store's answers to a create call, as the transport returns them     *)
(* (src/lib/crud.py:75-90): the "id" of the response, NoneId when it has   *)
(* none, and the severities of its "issue" list.                           *)
(***************************************************************************)
Response(id, issue) == [id |-> id, issue |-> issue]

NextStoreId(rtype) == StoreId(rtype, Cardinality({r \in store : r.resourceType = rtype}) + 1)

\* the record is created: with no issue, or with issues below error severity
Accepted(rtype) ==
    {Response(NextStoreId(rtype), issue) :
        issue \in {<<>>, <<"information">>, <<"warning">>}}

\* the record is refused with an OperationOutcome of error severity
Rejected == {Response(NoneId, issue) : issue \in {<<"error">>, <<"warning", "error">>}}

\* the record is not created and the answer carries neither an id nor an
\* issue (main.py:678-680 prints "No ID returned" for such an answer)
Unanswered == {Response(NoneId, <<>>)}

Responses(rtype) ==
    Accepted(rtype) \cup Rejected \cup (IF silent < MaxSilent THEN Unanswered ELSE {})

\* a check that reports success whatever the issues
check_fhir_response_lenient(response) == TRUE

\* a check that reports failure for an issue of any severity
check_fhir_response_strict(response) == response.issue = <<>>

\* common.py:43-98: False exactly when an issue has severity 'error'
check_fhir_response(response) ==
    ~(\E i \in DOMAIN response.issue : response.issue[i] = "error")

\* the store after a create call: the record is held under the returned id
Stored(st, rec, response) ==
    IF response.id # NoneId
    THEN st \cup {[resourceType |-> rec.resourceType, id |-> response.id, body |-> rec]}
    ELSE st

\* an exception handler that deletes what the run created
RaiseWithRollback(st) == {}

\* raise Exception(...): main() ends; nothing is deleted or updated
RaiseException(st) == st

\* a message that names the resource type of another block
FailureOfFirstBlock(rtype) == [kind |-> "Organization"]

\* Exception(f"Failed to create <type>: ..."): the message names the type
Failure(rtype) == [kind |-> rtype]

\* an except clause around the create call that logs and lets the loop go on
ContinueAfterException(position) == position

\* no try statement of main() encloses a create call: an exception raised by
\* requests.post or response.json() leaves the loop and ends main()
UncaughtException(position) == "aborted"

NoCall == [op |-> "none", rtype |-> "", id |-> NoneId, raised |-> FALSE,
           response |-> Response(NoneId, <<>>), calls |-> <<>>, validation |-> "off",
           answer |-> ""]

\* what fhir_request.validate can do: answer without an error issue, answer
\* with one, raise (no connection, an answer that is not a JSON object)
ValidationOutcomes ==
    IF fhir_validate THEN {"passed", "errors", "raised"} ELSE {"off"}

\* common.py:114-122
should_validate_resources == fhir_validate

\* a create that is given up when the validation does not pass
create_if_valid(validation, response) ==
    IF validation \in {"errors", "raised"}
    THEN [calls |-> <<"validate">>, validation |-> validation,
          response |-> Response(NoneId, <<"error">>)]
    ELSE [calls |-> IF should_validate_resources THEN <<"validate", "create">>
                    ELSE <<"create">>,
          validation |-> validation, response |-> response]

\* common.py:125-149: the validation, when it is made, is inside a try
\* statement whose handler only prints; fhir_request.create is called after
\* it and its value returned.  main() never passes validate=True
create_with_validation(validation, response) ==
    [calls |-> IF should_validate_resources THEN <<"validate", "create">>
               ELSE <<"create">>,
     validation |-> validation, response |-> response]

Call(rec, raised, result) ==
    [op |-> "create", rtype |-> rec.resourceType, id |-> rec.id, raised |-> raised,
     response |-> result.response, calls |-> result.calls,
     validation |-> result.validation, answer |-> ""]

\* the transport operations of a call
OpsOf(call) == {call.calls[i] : i \in DOMAIN call.calls}

Current == PublishSteps[step]

\* a create loop that walks its list from the last record to the first
record_reversed ==
    fhir_bundle[Current.key][Len(fhir_bundle[Current.key]) + 1 - idx]

\* for <record> in <list>: the idx-th record of the list of the block
record == fhir_bundle[Current.key][idx]

\* main() is run once: no second run is compared with it
NoReplay == [seed |-> 0, runs |-> <<>>]

\* FHIR_VALIDATE is set in runs of the configurations that app.py writes
ValidatedConfigs == {c \in Configs : "patient_configs" \in DOMAIN c}

\* the arguments main() is called with: a file name and a server (__main__,
\* main.py:1207-1215), a file name and a server only on request or no file
\* name at all (app.py:143-159)
Invocations ==
    {[output_filename |-> TRUE, fhir_server |-> TRUE],
     [output_filename |-> TRUE, fhir_server |-> FALSE],
     [output_filename |-> FALSE, fhir_server |-> FALSE]}

\* no output file has been written
NoFile == <<>>

Init ==
    /\ \/ config_file = "document" /\ config \in Configs
       \/ config_file \in {"missing", "unparsable"} /\ config = NoConfig
    /\ \E call \in Invocations :
           output_filename = call.output_filename /\ fhir_server = call.fhir_server
    /\ output = NoFile
    /\ fhir_version \in {"R4", "R5"}
    /\ fhir_bundle = [l \in ListNames |-> <<>>]
    /\ pc = "load" /\ pi = 0 /\ ki = 0 /\ todo = -1
    /\ step = 0 /\ idx = 0
    /\ id_maps = [t \in MappedTypes |-> EmptyMap]
    /\ store = {} /\ last = NoCall /\ submitted = {} /\ reported = {}
    /\ failures = <<>> /\ silent = 0 /\ ops = {}
    /\ replay = NoReplay
    /\ fhir_validate \in IF config \in ValidatedConfigs THEN BOOLEAN ELSE {FALSE}

\* what the publisher leaves alone
asmVars == <<genVars, pi, ki, todo, output>>

\* the lists are combined, the dump is left for after the publication
CombineWithoutDump ==
    /\ pc = "combine"
    /\ pc' = IF fhir_server THEN "probe" ELSE "returned"
    /\ UNCHANGED <<genVars, pi, ki, todo, fhir_bundle, output>>
    /\ UNCHANGED <<step, idx, id_maps, store, last, submitted, reported, failures,
                   silent, ops>>

\* main.py:463-514: the lists are combined into fhir_bundle, which is dumped
\* to the output file when a name was given; the publisher is entered when a
\* server was given, else main() returns
Combine ==
    /\ pc = "combine"
    /\ output' = IF output_filename THEN fhir_bundle ELSE output
    /\ pc' = IF fhir_server THEN "probe" ELSE "returned"
    /\ UNCHANGED <<genVars, pi, ki, todo, fhir_bundle>>
    /\ UNCHANGED <<step, idx, id_maps, store, last, submitted, reported, failures,
                   silent, ops>>

\* a connectivity test made before the configuration is loaded
ProbeBeforeLoad ==
    /\ pc = "load" /\ fhir_server /\ "search" \notin ops
    /\ ops' = ops \cup {"search"}
    /\ UNCHANGED <<asmVars, pc, fhir_bundle, step, idx, id_maps, store, last, submitted,
                   reported, failures, silent>>

\* fhir_request.search("Patient", params="_count=1"): the answer is a Bundle,
\* something else (an OperationOutcome, a page of a proxy), or the call raises
ProbeOutcomes == {"Bundle", "OperationOutcome", "raised"}

SearchCall(outcome) ==
    [NoCall EXCEPT !.op = "search", !.rtype = "Patient", !.calls = <<"search">>,
                   !.raised = (outcome = "raised"),
                   !.answer = IF outcome = "raised" THEN "" ELSE outcome]

\* a connectivity test whose failure ends the run
ProbeOrAbort ==
    /\ pc = "probe"
    /\ ops' = ops \cup {"search"}
    /\ \E outcome \in ProbeOutcomes :
         /\ last' = SearchCall(outcome)
         /\ IF outcome = "Bundle"
            THEN pc' = "publish" /\ step' = 1 /\ idx' = 1 /\ UNCHANGED failures
            ELSE /\ pc' = "aborted" /\ UNCHANGED <<step, idx>>
                 /\ failures' = Append(failures, [kind |-> "transport"])
    /\ UNCHANGED <<asmVars, fhir_bundle, id_maps, store, submitted, reported, silent>>

\* main.py:519-529: the connectivity test; an answer that is no Bundle prints
\* a warning, an exception is caught and prints one: the publisher goes on
\* with the Organizations in every case
Probe ==
    /\ pc = "probe"
    /\ ops' = ops \cup {"search"}
    /\ \E outcome \in ProbeOutcomes : last' = SearchCall(outcome)
    /\ pc' = "publish" /\ step' = 1 /\ idx' = 1
    /\ UNCHANGED <<asmVars, fhir_bundle, id_maps, store, submitted, reported,
                   failures, silent>>

\* an update loop, from its first record to its last
UpdateReferences ==
    /\ pc = "publish" /\ Current.op = "update"
    /\ LET list == fhir_bundle[Current.key]
       IN IF \E i \in DOMAIN list : UpdateRaises(Current.rtype, list[i].refs, id_maps)
          THEN /\ pc' = "aborted"
               /\ failures' = Append(failures, [kind |-> "KeyError"])
               /\ UNCHANGED <<fhir_bundle, step, idx>>
          ELSE /\ fhir_bundle' = [fhir_bundle EXCEPT ![Current.key] =
                      [i \in DOMAIN list |->
                          [list[i] EXCEPT !.refs = Updated(Current.rtype, @, id_maps)]]]
               /\ step' = step + 1 /\ idx' = 1
               /\ UNCHANGED <<pc, failures>>
    /\ UNCHANGED <<asmVars, id_maps, store, last, submitted, reported, silent, ops>>

\* one iteration of a create loop other than the appointment loop
CreateResource ==
    /\ pc = "publish" /\ Current.op = "create" /\ Current.rtype # "Appointment"
    /\ idx <= Len(fhir_bundle[Current.key])
    /\ \E answer \in Responses(Current.rtype), validation \in ValidationOutcomes :
       LET result == create_with_validation(validation, answer)
           response == result.response
       IN
         /\ last' = Call(record, FALSE, result)
         /\ ops' = ops \cup OpsOf(last')
         /\ silent' = IF response \in Unanswered THEN silent + 1 ELSE silent
         /\ IF ~check_fhir_response(response)
            THEN /\ store' = RaiseException(Stored(store, record, response))
                 /\ pc' = "aborted"
                 /\ failures' = Append(failures, Failure(Current.rtype))
                 /\ UNCHANGED <<id_maps, reported, idx>>
            ELSE /\ store' = Stored(store, record, response)
                 /\ id_maps' = IF Current.rtype \in MappedTypes
                               THEN [id_maps EXCEPT ![Current.rtype] =
                                        (record.id :> response.id) @@ @]
                               ELSE id_maps
                 /\ reported' = reported \cup {[rtype |-> Current.rtype, id |-> response.id]}
                 /\ idx' = idx + 1
                 /\ UNCHANGED <<pc, failures>>
    /\ submitted' = submitted \cup {record}
    /\ UNCHANGED <<asmVars, fhir_bundle, step>>

\* main.py:609-680: an appointment is read back when the response has an id
CreateAppointment ==
    /\ pc = "publish" /\ Current.op = "create" /\ Current.rtype = "Appointment"
    /\ idx <= Len(fhir_bundle[Current.key])
    /\ \E answer \in Responses("Appointment"), validation \in ValidationOutcomes :
       LET result == create_with_validation(validation, answer)
           response == result.response
       IN
         /\ last' = Call(record, FALSE, result)
         /\ silent' = IF response \in Unanswered THEN silent + 1 ELSE silent
         /\ IF \E i \in DOMAIN response.issue : response.issue[i] = "error"
            THEN /\ store' = RaiseException(Stored(store, record, response))
                 /\ pc' = "aborted"
                 /\ failures' = Append(failures, Failure("Appointment"))
                 /\ ops' = ops \cup OpsOf(last')
                 /\ UNCHANGED <<reported, idx>>
            ELSE /\ store' = Stored(store, record, response)
                 /\ reported' = IF response.id # NoneId
                                THEN reported \cup {[rtype |-> "Appointment",
                                                     id |-> response.id]}
                                ELSE reported
                 /\ ops' = ops \cup OpsOf(last')
                               \cup (IF response.id # NoneId THEN {"read"} ELSE {})
                 /\ idx' = idx + 1
                 /\ UNCHANGED <<pc, failures>>
    /\ submitted' = submitted \cup {record}
    /\ UNCHANGED <<asmVars, fhir_bundle, step, id_maps>>

\* the transport raises (connection refused, a body that is not JSON): the
\* exception is not caught by main()
CreateFails ==
    /\ pc = "publish" /\ Current.op = "create"
    /\ idx <= Len(fhir_bundle[Current.key])
    /\ \E validation \in ValidationOutcomes :
           last' = Call(record, TRUE,
                        create_with_validation(validation, Response(NoneId, <<>>)))
    /\ submitted' = submitted \cup {record}
    /\ ops' = ops \cup OpsOf(last')
    /\ pc' = UncaughtException(pc)
    /\ failures' = Append(failures, [kind |-> "transport"])
    /\ UNCHANGED <<asmVars, fhir_bundle, step, idx, id_maps, store, reported, silent>>

\* a publisher that returns after the Coverage block
EndOfLoopEarly ==
    /\ pc = "publish" /\ Current.op = "create"
    /\ idx > Len(fhir_bundle[Current.key])
    /\ IF step < Len(PublishSteps) /\ Current.rtype # "Coverage"
       THEN step' = step + 1 /\ idx' = 1 /\ UNCHANGED pc
       ELSE pc' = "verify" /\ UNCHANGED <<step, idx>>
    /\ UNCHANGED <<asmVars, fhir_bundle, id_maps, store, last, submitted, reported,
                   failures, silent, ops>>

\* a create loop is exhausted: the next block, or the final verification
EndOfLoop ==
    /\ pc = "publish" /\ Current.op = "create"
    /\ idx > Len(fhir_bundle[Current.key])
    /\ IF step < Len(PublishSteps)
       THEN step' = step + 1 /\ idx' = 1 /\ UNCHANGED pc
       ELSE pc' = "verify" /\ UNCHANGED <<step, idx>>
    /\ UNCHANGED <<asmVars, fhir_bundle, id_maps, store, last, submitted, reported,
                   failures, silent, ops>>

\* main.py:1168-1203: the stored appointments are searched; a failure is caught
FinalVerification ==
    /\ pc = "verify"
    /\ ops' = ops \cup {"search"}
    /\ pc' = "done"
    /\ UNCHANGED <<asmVars, fhir_bundle, step, idx, id_maps, store, last, submitted,
                   reported, failures, silent>>

\* __main__ (main.py:1207-1215) calls main() and nothing else: the process
\* ends with status 1 when an exception leaves main(), with status 0 when
\* main() returns; -1 stands for a process that has not ended
exit_status ==
    CASE pc \in {"crashed", "aborted"} -> 1
      [] pc \in {"done", "returned"} -> 0
      [] OTHER -> -1

Next ==
    \/ LoadConfig
    \/ GenerateClinic \/ GeneratePractitioner \/ GeneratePatient
    \/ GeneratePatientCustom \/ ReadCount \/ GenerateConditionCustom
    \/ GenerateMedicationRequestCustom \/ GenerateAllergyIntoleranceCustom
    \/ DrawCount \/ RaiseValueError \/ RaiseIndexError
    \/ GenerateCondition \/ GenerateAppointment \/ GenerateMedicationRequest
    \/ GenerateEncounter \/ GenerateObservation \/ GenerateProcedure
    \/ GenerateDiagnosticReport \/ GenerateServiceRequest
    \/ GenerateClinicalImpression \/ GenerateFamilyMemberHistory
    \/ GenerateImmunization \/ GenerateMedicationAdministration
    \/ GenerateAllergyIntolerance \/ GenerateCarePlan \/ GenerateCoverage
    \/ Combine \/ Probe \/ UpdateReferences \/ CreateResource \/ CreateAppointment
    \/ CreateFails \/ EndOfLoop \/ FinalVerification

Spec == Init /\ [][Next]_vars

(***************************************************************************)
(* Seeded replay.  Two runs of the first blocks of main() (one clinic with *)
(* its location, one practitioner, one patient; main.py:81-92, 224-227)    *)
(* are started after random.seed(seed) with the same seed.  The module     *)
(* `random` is a deterministic generator: what random.choice returns is a  *)
(* function of the seed and of the number of draws made.  uuid.uuid4()     *)
(* does not read that generator: it takes 16 bytes of os.urandom, so the   *)
(* value it returns is any identifier not drawn before, whatever the seed. *)
(***************************************************************************)
MaxUuid == 4

Seeds == {0, 1}

\* patient.py:24
GENDERS == <<"male", "female", "other", "unknown">>

\* clinic.py:23
CLINIC_KINDS == <<"Community", "General", "Wellness">>

\* data/specialties.py:6-9: the first entries of the list, by SNOMED code
PRACTITIONER_SPECIALTIES == <<"408472002", "394582007", "394579002">>

\* random.choice(seq) in a generator state: the element chosen
random_choice(state, seq) == seq[(state % Len(seq)) + 1]

\* str(uuid.uuid4()): the identifiers the call can return
uuid4(used) == {LocalId("uuid", u) : u \in 1..MaxUuid} \ used

UsedIds(run) == {replay.runs[run].graph[i].id : i \in DOMAIN replay.runs[run].graph}

Entry(rec, attribute) ==
    [id |-> rec.id, resourceType |-> rec.resourceType, refs |-> rec.refs,
     attribute |-> attribute]

Drawn(run, entries) ==
    [replay EXCEPT !.runs[run] =
        [random |-> @.random + 1, at |-> @.at + 1, graph |-> @.graph \o entries]]

mainVars == <<config_file, config, output_filename, fhir_server, output, fhir_version,
              fhir_bundle, pc, ki, pi, todo, step, idx, id_maps, store, last, submitted,
              reported, failures, silent, ops, fhir_validate>>

ReplayInit ==
    /\ config_file = "document" /\ config = Profile(1, {}, 0)
    /\ output_filename = FALSE /\ fhir_server = FALSE /\ output = NoFile
    /\ fhir_version = "R4"
    /\ fhir_bundle = [l \in ListNames |-> <<>>]
    /\ pc = "replay" /\ pi = 0 /\ ki = 0 /\ todo = -1
    /\ step = 0 /\ idx = 0
    /\ id_maps = [t \in MappedTypes |-> EmptyMap]
    /\ store = {} /\ last = NoCall /\ submitted = {} /\ reported = {}
    /\ failures = <<>> /\ silent = 0 /\ ops = {}
    /\ fhir_validate = FALSE
    /\ \E seed \in Seeds :
           replay = [seed |-> seed,
                     runs |-> [run \in {1, 2} |-> [random |-> seed, at |-> 1, graph |-> <<>>]]]

\* clinic.py:15-97: two identifiers from uuid4, the name from random.choice
ReplayClinic(run) ==
    /\ pc = "replay" /\ replay.runs[run].at = 1
    /\ \E clinic_id \in uuid4(UsedIds(run)) :
       \E location_id \in uuid4(UsedIds(run) \cup {clinic_id}) :
           LET pair == generate_clinic_and_location(clinic_id, location_id)
               name == random_choice(replay.runs[run].random, CLINIC_KINDS)
           IN replay' = Drawn(run, <<Entry(pair.clinic, name), Entry(pair.location, name)>>)
    /\ UNCHANGED mainVars

\* practitioner.py:23-26: the identifier from uuid4, the specialty from
\* random.choice
ReplayPractitioner(run) ==
    /\ pc = "replay" /\ replay.runs[run].at = 2
    /\ \E id \in uuid4(UsedIds(run)) :
           replay' = Drawn(run, <<Entry(generate_practitioner(id),
                                       random_choice(replay.runs[run].random,
                                                     PRACTITIONER_SPECIALTIES))>>)
    /\ UNCHANGED mainVars

\* patient.py:15-33: the identifier from uuid4, the gender from random.choice
ReplayPatient(run) ==
    /\ pc = "replay" /\ replay.runs[run].at = 3
    /\ \E id \in uuid4(UsedIds(run)) :
           replay' = Drawn(run, <<Entry(generate_patient(id),
                                       random_choice(replay.runs[run].random, GENDERS))>>)
    /\ UNCHANGED mainVars

\* main() is one sequential program: it takes its next step as long as it
\* has one (every call to the store returns or raises)
FairSpec == Spec /\ WF_vars(Next)

ReplayNext ==
    \E run \in {1, 2} : ReplayClinic(run) \/ ReplayPractitioner(run) \/ ReplayPatient(run)

ReplaySpec == ReplayInit /\ [][ReplayNext]_vars

(***************************************************************************)
(* Properties.                                                             *)
(***************************************************************************)
Graph == UNION {Choice(fhir_bundle[l]) : l \in ListNames}

OfType(rtype) == {r \in Graph : r.resourceType = rtype}

HasError(response) == \E i \in DOMAIN response.issue : response.issue[i] = "error"

\* the store holds the record
Created(r) == \E s \in store : s.resourceType = r.resourceType /\ s.body.id = r.id

StoreIdOf(r) ==
    (CHOOSE s \in store : s.resourceType = r.resourceType /\ s.body.id = r.id).id

\* the identifier map of the record's type has the identifier the store returned
Captured(r) ==
    /\ r.resourceType \in MappedTypes
    /\ r.id \in DOMAIN id_maps[r.resourceType]
    /\ Created(r)
    /\ id_maps[r.resourceType][r.id] = StoreIdOf(r)

\* the latest create call was answered with an issue of error severity
Rejection == last.op = "create" /\ ~last.raised /\ HasError(last.response)

\* the kinds whose records a kind refers to, as C1 lists them
DependsOn(rtype) ==
    CASE rtype = "Location" -> {"Organization"}
      [] rtype = "Condition" -> {"Patient"}
      [] rtype = "Appointment" -> {"Patient", "Practitioner", "Location"}
      [] rtype = "Encounter" -> {"Patient", "Practitioner", "Location", "Organization"}
      [] rtype = "Observation" -> {"Encounter"}
      [] rtype = "DiagnosticReport" -> {"Encounter", "Observation"}
      [] rtype = "MedicationAdministration" -> {"MedicationRequest"}
      [] rtype = "DocumentReference" -> {"Binary"}
      [] OTHER -> {}

\* C1: a record has been submitted only when every record of every kind its
\* kind refers to has been created and its store identifier captured.  The
\* store never loses a record, so what holds of the submitted records at any
\* time held when they were submitted.
C1_DependenciesCreatedFirst ==
    \A r \in submitted : \A k \in DependsOn(r.resourceType) : \A d \in OfType(k) :
        Captured(d)

\* C2: once a create response carries an issue of error severity the run is
\* aborted at that record, and no create call (no transport call at all) is
\* issued afterwards.
C2_AbortOnError ==
    [][ /\ Rejection' => pc' = "aborted"
        /\ Rejection => UNCHANGED <<last, submitted, ops, store>> ]_vars

\* C2 witness: the run was aborted by an error response while a record of the
\* same kind was still to be created.
C2_Witness ==
    /\ Rejection /\ pc = "aborted"
    /\ idx < Len(fhir_bundle[Current.key])

GraphKinds ==
    {"Patient", "Practitioner", "Organization", "Location", "Encounter",
     "Observation", "MedicationRequest", "Binary"}

\* C3: no record is submitted with the local identifier of a graph record in
\* one of its references: every such reference was rewritten before.
C3_NoLocalReferenceSent ==
    \A r \in submitted : \A p \in DOMAIN r.refs :
        r.refs[p].kind \in GraphKinds => r.refs[p].id.src # "local"

\* C4: a record has an entry in the identifier map exactly when it was
\* created at the store, and the entry is the identifier the store returned.
C4_MapIffCreated ==
    \A r \in Graph :
        LET mapped == /\ r.resourceType \in MappedTypes
                      /\ r.id \in DOMAIN id_maps[r.resourceType]
        IN /\ mapped <=> Created(r)
           /\ mapped => id_maps[r.resourceType][r.id] = StoreIdOf(r)

\* the reference names a record of the graph, by its local identifier or by
\* the identifier the store gave it
Resolves(ref) ==
    \E t \in OfType(ref.kind) :
        \/ ref.id = t.id
        \/ Created(t) /\ ref.id = StoreIdOf(t)

\* C5: every reference of every record names a record of the graph.
C5_NoDanglingReference ==
    \A r \in Graph : \A p \in DOMAIN r.refs : Resolves(r.refs[p])

\* the create of the only Patient was answered with an error issue
SolePatientRejected ==
    /\ Len(patients) = 1
    /\ Rejection /\ last.rtype = "Patient"

\* C6: when the create of the only Patient returns an error issue, exactly
\* one failure is reported, it names Patient, and no Condition is submitted
\* then or later.
C6_SolePatientFailure ==
    [][ /\ SolePatientRejected' =>
              /\ failures' = <<[kind |-> "Patient"]>>
              /\ \A r \in submitted' : r.resourceType # "Condition"
        /\ SolePatientRejected => UNCHANGED <<last, failures, submitted>> ]_vars

\* C6 witness: the only Patient was rejected in a graph that has Conditions.
C6_Witness ==
    /\ SolePatientRejected
    /\ fhir_bundle["conditions"] # <<>>
    /\ Len(failures) = 1

\* the create call for the record of this type and local identifier was
\* accepted by the response check and its response had no id
NoIdObtained(kind, id) ==
    /\ kind \in MappedTypes
    /\ id \in DOMAIN id_maps[kind]
    /\ id_maps[kind][id] = NoneId

\* C7: no record is submitted with a reference whose identifier is empty, or
\* is the local identifier of a record whose create yielded no identifier.
C7_NoSubmissionWithoutDependency ==
    \A r \in submitted : \A p \in DOMAIN r.refs :
        /\ r.refs[p].id # NoneId
        /\ ~NoIdObtained(r.refs[p].kind, r.refs[p].id)

\* C8: when the run has ended, every reference to a record of the graph has
\* been assigned exactly once by the publisher.
C8_MutatedExactlyOnce ==
    pc = "done" =>
        \A r \in Graph : \A p \in DOMAIN r.refs :
            Resolves(r.refs[p]) => r.refs[p].w = 1

\* C9: no step removes a record from the store and no delete or update is
\* ever called: what was created before a failure is in the store when the
\* run ends.
C9_NoRollback ==
    [][ /\ store \subseteq store'
        /\ ops' \cap {"delete", "update"} = {} ]_vars

\* C9 witness: the run was aborted by a rejection after records were created.
C9_Witness ==
    /\ pc = "aborted" /\ Rejection
    /\ store # {}

\* the response has an id and issues, all of warning or information severity
WarningsOnly(response) ==
    /\ response.id # NoneId
    /\ response.issue # <<>>
    /\ \A i \in DOMAIN response.issue : response.issue[i] \in {"warning", "information"}

\* C10: a create answered with warning or information issues only is a
\* success for every kind: the identifier is recorded (printed, and entered
\* in the identifier map of a kind that has one), the record is in the store
\* and the loop goes on to the next record.
C10_WarningsAreSuccess ==
    [][ (submitted' # submitted /\ WarningsOnly(last'.response)) =>
            /\ pc' = "publish" /\ idx' = idx + 1
            /\ [rtype |-> last'.rtype, id |-> last'.response.id] \in reported'
            /\ last'.rtype \in MappedTypes =>
                   id_maps'[last'.rtype][last'.id] = last'.response.id
            /\ failures' = failures ]_vars

\* C10 witness: an Appointment was created with a warning and the run goes on.
C10_Witness ==
    /\ last.rtype = "Appointment" /\ WarningsOnly(last.response)
    /\ pc = "publish"
    /\ [rtype |-> "Appointment", id |-> last.response.id] \in reported

\* the latest create call ended with an exception of the transport
TransportFailure == last.op = "create" /\ last.raised

\* C11: a create call that raises in the transport is handled like a create
\* answered with an error issue: the run is aborted at that record, which is
\* neither stored, reported nor entered in an identifier map, one failure is
\* recorded, and afterwards no call is made: the create is not repeated and
\* no later record is submitted.
C11_TransportFailureAborts ==
    [][ /\ TransportFailure' =>
              /\ pc' = "aborted"
              /\ Len(failures') = Len(failures) + 1
              /\ UNCHANGED <<store, id_maps, reported, idx>>
        /\ TransportFailure => UNCHANGED <<last, submitted, ops, store>> ]_vars

\* C11 witness: the transport failed after records had been created and
\* while records of the same kind were still to be created.
C11_Witness ==
    /\ TransportFailure /\ pc = "aborted"
    /\ store # {}
    /\ idx < Len(fhir_bundle[Current.key])

\* the references of the records of the output file
OutputRefs ==
    UNION {{r.refs[p] : p \in DOMAIN r.refs} :
              r \in UNION {Choice(output[l]) : l \in DOMAIN output}}

\* C12: when main() has ended with an output file written, the file has no
\* reference with a local identifier if a store was used, and no reference
\* with a store identifier if none was used.
C12_OutputReferences ==
    (pc \in {"done", "returned"} /\ output # NoFile) =>
        IF fhir_server
        THEN \A ref \in OutputRefs : ref.id.src # "local"
        ELSE \A ref \in OutputRefs : ref.id.src # "store"

\* the configuration of the end-to-end scenario
Scenario ==
    /\ num_clinics = 1 /\ num_practitioners = 1 /\ num_patients = 1
    /\ CountConfig("conditions") = Range(1, 1)
    /\ patient_configs = <<>>

Assembled == pc \in {"combine", "probe", "publish", "verify", "done", "returned", "aborted"}

\* the scenario's graph has one record of each of the five kinds
ScenarioCounts ==
    \A l \in {"clinics", "locations", "practitioners", "patients", "conditions"} :
        Len(fhir_bundle[l]) = 1

\* C13: in the end-to-end scenario the assembled graph has exactly one
\* Organization, Location, Practitioner, Patient and Condition; until the
\* publisher is entered the Condition's subject is the Patient's local
\* identifier, and a submitted Condition has the Patient's store identifier
\* as its subject.
C13_EndToEnd ==
    (Scenario /\ Assembled) =>
        /\ ScenarioCounts
        /\ pc \in {"combine", "probe", "returned"} =>
               fhir_bundle["conditions"][1].refs["subject"] = Ref("Patient", patients[1].id)
        /\ \A r \in submitted :
               r.resourceType = "Condition" =>
                   /\ Created(patients[1])
                   /\ r.refs["subject"].kind = "Patient"
                   /\ r.refs["subject"].id = StoreIdOf(patients[1])

\* the field of a per-patient kind that names the patient it was built for
SubjectPath(key) ==
    CASE key = "appointments" -> "participant[0].actor"
      [] key \in {"family_member_histories", "immunizations", "allergy_intolerances"} ->
             "patient"
      [] key = "coverages" -> "beneficiary"
      [] OTHER -> "subject"

\* the number of records of the kind built for the patient
CountFor(key, p) ==
    Cardinality({i \in DOMAIN fhir_bundle[key] :
                    fhir_bundle[key][i].refs[SubjectPath(key)] = Ref("Patient", p.id)})

\* assembly has completed and the publisher has not rewritten a reference
Unpublished == pc \in {"combine", "probe", "returned"}

\* C14: when assembly has completed without patient_configs, for every
\* patient and every per-patient kind configured with min <= max, the number
\* of records of the kind built for the patient lies in [min, max],
\* diagnostic reports included.
C14_CountsInRange ==
    (Unpublished /\ patient_configs = <<>>) =>
        \A p \in Choice(patients) : \A key \in PerPatientKeys :
            CountConfig(key).min <= CountConfig(key).max =>
                CountFor(key, p) \in CountConfig(key).min .. CountConfig(key).max

\* some per-patient kind is configured with min > max
InvalidRange ==
    \E key \in PerPatientKeys : CountConfig(key).min > CountConfig(key).max

\* C15: under a configuration with a min > max range no record is ever
\* generated: the configuration is rejected first.
C15_InvalidRangeRejectedFirst ==
    InvalidRange => \A l \in ListNames : fhir_bundle[l] = <<>>

\* the configured document reference probability is outside [0, 1]
InvalidProbability == doc_ref_probability \notin 0..100

\* C16: under a configuration whose document reference probability is
\* outside [0, 1] no clinical note (Binary, DocumentReference) is generated
\* and assembly does not complete: the configuration is rejected.
C16_InvalidProbabilityRejected ==
    InvalidProbability =>
        /\ fhir_bundle["binaries"] = <<>> /\ fhir_bundle["document_references"] = <<>>
        /\ ~Assembled

\* C17: a run that has failed on its configuration or on an empty pool (no
\* configuration file or one that is not JSON, a min > max range, a draw from
\* an empty list of practitioners, clinics, locations or conditions) has
\* made no call to the store: no search and no create.
C17_NoStoreCallBeforeConfigFailure ==
    pc = "crashed" => ops = {} /\ submitted = {} /\ store = {}

\* C17 witness: a run that was to publish to a server failed on a draw from
\* the empty list of practitioners.
C17_Witness ==
    /\ pc = "crashed" /\ fhir_server
    /\ patients # <<>> /\ practitioners = <<>>

\* the resource type of the records of a list
TypeOf(key) == IF key = "conditions" THEN "Condition" ELSE "MedicationRequest"

\* main() has ended with the IndexError of a draw from the empty list <key>:
\* a crash within a for-range loop (todo > 0) of a block that draws from the
\* list, the other lists the block draws from being filled.  The first
\* patient loop runs with pi = 0.
IndexErrorOn(key) ==
    /\ pc = "crashed" /\ ki >= 1 /\ todo > 0
    /\ LET block == IF pi = 0 THEN Block1[ki] ELSE Block2[ki]
       IN /\ key \in Pools(block)
          /\ fhir_bundle[key] = <<>>
          /\ \A l \in Pools(block) \ {key} : fhir_bundle[l] # <<>>

\* C18: when the range of conditions, or of medication requests, is [0, 0]
\* and no patient_configs are given, no record of the kind is built, no record refers to a record of the kind,
\* and assembly does not fail on the empty list of that kind.
C18_ZeroCount ==
    \A key \in {"conditions", "medication_requests"} :
        (config_file = "document" /\ patient_configs = <<>>
            /\ CountConfig(key) = Range(0, 0)) =>
            /\ fhir_bundle[key] = <<>>
            /\ \A r \in Graph : \A p \in DOMAIN r.refs : r.refs[p].kind # TypeOf(key)
            /\ ~IndexErrorOn(key)

\* C19: when assembly has completed with patient_configs, each patient has
\* as many conditions, medication requests and allergy intolerances as its
\* patient_config lists: the per_patient ranges add none.
C19_ExplicitListsOnly ==
    (Unpublished /\ patient_configs # <<>>) =>
        \A i \in DOMAIN patients : \A key \in CustomKeys :
            CountFor(key, patients[i]) =
                Len(Get(patient_configs[i], PatientConfigKey(key), <<>>))

\* the records a record refers to
Targets(r) == {[kind |-> r.refs[p].kind, id |-> r.refs[p].id] : p \in DOMAIN r.refs}

\* the two records refer to the same records
SameTargets(r4, r5) == Targets(r4) = Targets(r5)

\* C20: every builder that branches on the FHIR version returns, for the
\* same identifiers and the same draws, a record under R4 and a record under
\* R5 that refer to the same records.  The inputs are the identifiers main()
\* can pass: those of the records generated so far, None for an optional one.
C20_SameDependencies ==
    LET id == LocalId("", 0)
    IN \A pt \in Ids(patients) :
         /\ \A pr \in Ids(practitioners), enc \in OptIds(fhir_bundle["encounters"]) :
              /\ SameTargets(generate_clinical_impression(id, "R4", pt, pr, enc),
                             generate_clinical_impression(id, "R5", pt, pr, enc))
              /\ \A req \in OptIds(fhir_bundle["medication_requests"]) :
                     SameTargets(
                         generate_medication_administration(id, "R4", pt, pr, req, enc),
                         generate_medication_administration(id, "R5", pt, pr, req, enc))
         /\ \A pr \in OptIds(practitioners) :
              /\ SameTargets(generate_family_member_history(id, "R4", pt, pr),
                             generate_family_member_history(id, "R5", pt, pr))
              /\ SameTargets(generate_allergy_intolerance(id, "R4", pt, pr),
                             generate_allergy_intolerance(id, "R5", pt, pr))
              /\ SameTargets(generate_allergy_intolerance_custom(id, "R4", pt, pr),
                             generate_allergy_intolerance_custom(id, "R5", pt, pr))
         /\ \A org \in Ids(clinics), holder \in OptIds(patients) :
                SameTargets(generate_coverage(id, "R4", pt, org, holder),
                            generate_coverage(id, "R5", pt, org, holder))

(***************************************************************************)
(* C21: within each kind the records are submitted in the order in which   *)
(* they were assembled, and the output array of the kind lists them in     *)
(* that order.  A list only grows at its end while the graph is assembled; *)
(* at every moment the submitted records of a list are its first k records *)
(* for some k, one more after each create call; the array of the output    *)
(* file has the identifiers of the list in the order of the list.          *)
(***************************************************************************)
IdSeq(seq) == [i \in DOMAIN seq |-> seq[i].id]

SubmittedIds == {r.id : r \in submitted}

IsPrefix(s, t) == Len(s) <= Len(t) /\ \A i \in DOMAIN s : s[i] = t[i]

C21_AssemblyOrderKept ==
    /\ [](\A l \in ListNames :
            /\ \E k \in 0..Len(fhir_bundle[l]) :
                   SubmittedIds \cap Ids(fhir_bundle[l])
                       = {fhir_bundle[l][i].id : i \in 1..k}
            /\ output # NoFile => IdSeq(output[l]) = IdSeq(fhir_bundle[l]))
    /\ [][/\ \A l \in ListNames : IsPrefix(IdSeq(fhir_bundle[l]), IdSeq(fhir_bundle'[l]))
          /\ Cardinality(SubmittedIds') <= Cardinality(SubmittedIds) + 1]_vars

\* a list of two records or more has been submitted whole, and the output
\* file was written
C21_Witness ==
    /\ output # NoFile
    /\ \E l \in ListNames :
           Len(fhir_bundle[l]) >= 2 /\ Ids(fhir_bundle[l]) \subseteq SubmittedIds

(***************************************************************************)
(* C22: the process ends with a non-zero status whenever publishing was    *)
(* requested and some record failed (it was submitted and the store does   *)
(* not hold it), and whenever the configuration is missing or malformed    *)
(* (no file, a file that is not JSON, a min > max range, a probability     *)
(* outside [0, 1]); it ends with status 0 only when every requested step   *)
(* succeeded: the file was written when one was requested, and every       *)
(* record of the graph was created when publishing was requested.          *)
(***************************************************************************)
Ended == exit_status # -1

RecordFailed == \E r \in submitted : ~Created(r)

Malformed ==
    \/ config_file # "document"
    \/ config_file = "document" /\ (InvalidRange \/ InvalidProbability)

C22_FailedRecordExits == Ended /\ fhir_server /\ RecordFailed => exit_status # 0

C22_BadConfigurationExits == Ended /\ Malformed => exit_status # 0

C22_ZeroOnlyOnSuccess ==
    exit_status = 0 =>
        /\ output_filename => output # NoFile
        /\ fhir_server => \A r \in Graph : Created(r)

C22_ExitStatus ==
    C22_FailedRecordExits /\ C22_BadConfigurationExits /\ C22_ZeroOnlyOnSuccess

(***************************************************************************)
(* C23: two assembly runs with the same random seed, the same              *)
(* configuration and the same schema version produce identical graphs: the *)
(* same records with the same local identifiers, attributes and            *)
(* references.                                                             *)
(***************************************************************************)
Replayed ==
    replay.runs # <<>> /\ \A run \in DOMAIN replay.runs : replay.runs[run].at = 4

C23_SeededRunsAgree ==
    Replayed => replay.runs[1].graph = replay.runs[2].graph

\* what the seed does fix: the kinds, their order and the attributes drawn
\* with random.choice
C23_SeededAttributesAgree ==
    Replayed =>
        /\ Len(replay.runs[1].graph) = Len(replay.runs[2].graph)
        /\ \A i \in DOMAIN replay.runs[1].graph :
               /\ replay.runs[1].graph[i].resourceType = replay.runs[2].graph[i].resourceType
               /\ replay.runs[1].graph[i].attribute = replay.runs[2].graph[i].attribute

(***************************************************************************)
(* C24: if every create call returns a success response carrying a store   *)
(* identifier, the publish run terminates and every record of every one of *)
(* the 21 assembled kinds has been submitted to the store exactly once.    *)
(* Each of the 21 lists has a create block; a record about to be submitted *)
(* was not submitted before; the publisher is not left by an exception     *)
(* unless a create call was refused; a publisher that is entered reaches   *)
(* its end or has a create call refused, and at its end every record of    *)
(* the graph has been submitted.                                           *)
(***************************************************************************)
\* a create call raised, was answered with an error issue or without an id
CreateRefused == silent > 0 \/ \E i \in DOMAIN failures : failures[i].kind # "KeyError"

CreateBlocks == {i \in DOMAIN PublishSteps : PublishSteps[i].op = "create"}

C24_EveryRecordOnce ==
    /\ [](/\ Cardinality(ListNames) = 21 /\ Cardinality(CreateBlocks) = 21
          /\ \A l \in ListNames : \E i \in CreateBlocks : PublishSteps[i].key = l
          /\ pc = "publish" /\ Current.op = "create" /\ idx <= Len(fhir_bundle[Current.key])
                => record.id \notin SubmittedIds
          /\ pc = "aborted" => CreateRefused
          /\ pc = "done" /\ ~CreateRefused => \A r \in Graph : r.id \in SubmittedIds)
    /\ (pc = "publish") ~> (pc = "done" \/ CreateRefused)

\* a graph with appointments, and one with a Binary and its
\* DocumentReference, was published to the end with every create accepted
C24_Witness ==
    /\ pc = "done" /\ ~CreateRefused
    /\ \/ fhir_bundle["appointments"] # <<>>
       \/ fhir_bundle["binaries"] # <<>> /\ fhir_bundle["document_references"] # <<>>

(***************************************************************************)
(* C25: when both an output file and a store are requested, the output     *)
(* file is written completely before the first store call and is not       *)
(* modified afterwards; a publish run that aborts therefore leaves a       *)
(* complete output file whose references are all local identifiers.  Once  *)
(* a transport operation has been called the file exists, holds every      *)
(* record of every list and has no store identifier in a reference; a file *)
(* that exists is never written again.                                     *)
(***************************************************************************)
C25_FileBeforeStore ==
    /\ [](output_filename /\ fhir_server /\ ops # {} =>
            /\ output # NoFile
            /\ \A l \in ListNames : IdSeq(output[l]) = IdSeq(fhir_bundle[l])
            /\ \A ref \in OutputRefs : ref.id.src # "store")
    /\ [][output # NoFile => output' = output]_vars

\* a publish run has aborted after records were created and references of
\* the graph were rewritten to store identifiers
C25_Witness ==
    /\ pc = "aborted" /\ output # NoFile /\ store # {}
    /\ OutputRefs # {}
    /\ \E r \in Graph : \E p \in DOMAIN r.refs : r.refs[p].id.src = "store"

(***************************************************************************)
(* C26: every Encounter, Observation or MedicationRequest referenced by a  *)
(* per-patient record (DiagnosticReport, ServiceRequest,                   *)
(* ClinicalImpression, Immunization, MedicationAdministration, CarePlan,   *)
(* DocumentReference) has as its subject the same Patient as the           *)
(* referencing record.  Stated on the assembled graph, before the          *)
(* publisher rewrites a reference.                                         *)
(***************************************************************************)
ReferringKinds ==
    {"DiagnosticReport", "ServiceRequest", "ClinicalImpression", "Immunization",
     "MedicationAdministration", "CarePlan", "DocumentReference"}

PatientOf(r) ==
    IF "patient" \in DOMAIN r.refs THEN r.refs["patient"] ELSE r.refs["subject"]

SamePatient(r) ==
    \A p \in DOMAIN r.refs :
        r.refs[p].kind \in {"Encounter", "Observation", "MedicationRequest"} =>
            \A t \in Graph :
                t.resourceType = r.refs[p].kind /\ t.id = r.refs[p].id =>
                    PatientOf(t) = PatientOf(r)

C26_SamePatient ==
    Unpublished => \A r \in Graph : r.resourceType \in ReferringKinds => SamePatient(r)

(***************************************************************************)
(* C27: create_with_validation issues exactly one create call for the      *)
(* record whatever the outcome of the optional validation: validation      *)
(* disabled, validation returning error-severity issues, or the validation *)
(* request itself raising never prevents or repeats the create call, and   *)
(* the create response is returned unchanged.  The latest call made one    *)
(* create, as its last operation, preceded by one validate exactly when    *)
(* FHIR_VALIDATE is set; the response main() received is the answer of the *)
(* store: the store holds the record under the identifier of the response, *)
(* and holds nothing for a response without identifier.                    *)
(***************************************************************************)
CreateCalls(call) == {i \in DOMAIN call.calls : call.calls[i] = "create"}

C27_OneCreateCall ==
    last.op = "create" =>
        /\ Cardinality(CreateCalls(last)) = 1
        /\ last.calls[Len(last.calls)] = "create"
        /\ Len(last.calls) = IF fhir_validate THEN 2 ELSE 1
        /\ (last.validation = "off") = ~fhir_validate
        /\ last.id \in SubmittedIds
        /\ ~last.raised =>
               IF last.response.id # NoneId
               THEN \E s \in store : s.id = last.response.id /\ s.body.id = last.id
               ELSE ~(\E s \in store : s.body.id = last.id)

\* a record was created after its validation request had raised
C27_Witness ==
    /\ last.op = "create" /\ last.validation = "raised" /\ ~last.raised
    /\ last.response.id # NoneId
    /\ Cardinality(store) >= 2


(***************************************************************************)
(* C28: for every encounter, either no DocumentReference and no Binary is  *)
(* built, or exactly one of each is built, the DocumentReference's         *)
(* attachment pointing to that Binary, its context to that Encounter and   *)
(* its subject to the encounter's Patient; hence the numbers of Binaries   *)
(* and DocumentReferences in a graph are always equal.  With               *)
(* document_reference_probability 0 no pair is built, with 1 one pair is   *)
(* built for every encounter.  The references are read on the assembled    *)
(* graph, before the publisher rewrites them.                              *)
(***************************************************************************)
NotesOf(e) ==
    {d \in OfType("DocumentReference") : d.refs["context"] = Ref("Encounter", e.id)}

BinaryOf(d) ==
    {b \in OfType("Binary") : d.refs["content[0].attachment.url"] = Ref("Binary", b.id)}

C28_NotePairs ==
    /\ Len(fhir_bundle["binaries"]) = Len(fhir_bundle["document_references"])
    /\ Unpublished =>
        /\ \A e \in OfType("Encounter") :
              /\ Cardinality(NotesOf(e)) <= 1
              /\ \A d \in NotesOf(e) : d.refs["subject"] = e.refs["subject"]
              /\ doc_ref_probability = 100 => Cardinality(NotesOf(e)) = 1
        /\ \A d \in OfType("DocumentReference") :
              /\ Cardinality(BinaryOf(d)) = 1
              /\ \E e \in OfType("Encounter") : d \in NotesOf(e)
        /\ \A b \in OfType("Binary") :
              Cardinality({d \in OfType("DocumentReference") : b \in BinaryOf(d)}) = 1
        /\ doc_ref_probability = 0 => OfType("DocumentReference") \cup OfType("Binary") = {}

\* two encounters were built with probability 1, each with its note and Binary
C28_Witness ==
    /\ Unpublished /\ doc_ref_probability = 100
    /\ Cardinality(OfType("Encounter")) = 2 /\ Cardinality(OfType("Binary")) = 2
    /\ \A e \in OfType("Encounter") : NotesOf(e) # {}

\* with a probability strictly between 0 and 1 an encounter was built without a note
C28_WitnessWithout ==
    /\ Unpublished /\ doc_ref_probability = 50
    /\ \E e \in OfType("Encounter") : NotesOf(e) = {}

(***************************************************************************)
(* C29: the numbers of Organizations, Locations and Practitioners in an    *)
(* assembled graph equal base_counts.clinics, base_counts.clinics and      *)
(* base_counts.practitioners, independent of the number of patients; each  *)
(* Location's managingOrganization is the Organization built together with *)
(* it, and every Practitioner, Location or Organization referenced by a    *)
(* patient's record is a member of these pools.  The references are read   *)
(* on the assembled graph, before the publisher rewrites them.             *)
(***************************************************************************)
PoolKinds == {"Organization", "Location", "Practitioner"}

PoolIds == Ids(clinics) \cup Ids(locations) \cup Ids(practitioners)

C29_PoolCounts ==
    Assembled =>
        /\ Len(clinics) = num_clinics /\ Len(locations) = num_clinics
        /\ Len(practitioners) = num_practitioners

C29_LocationOfClinic ==
    Unpublished =>
        \A i \in DOMAIN locations :
            locations[i].refs["managingOrganization"] = Ref("Organization", clinics[i].id)

PoolMembers(paths) ==
    \A r \in Graph :
        r.resourceType \notin PoolKinds =>
            \A p \in DOMAIN r.refs \ paths :
                r.refs[p].kind \in PoolKinds => r.refs[p].id \in PoolIds

C29_PoolReferences == Unpublished => PoolMembers({})

\* the pool references other than the manufacturer of an Immunization
C29_PoolReferencesButManufacturer == Unpublished => PoolMembers({"manufacturer"})

C29_Pools == C29_PoolCounts /\ C29_LocationOfClinic /\ C29_PoolReferences

(***************************************************************************)
(* C30: a failure of the initial connectivity probe (the Patient search    *)
(* raising an exception or returning something other than a Bundle) does   *)
(* not stop the run: the publisher still proceeds to submit the            *)
(* Organizations, and no record is counted as failed because of the probe. *)
(* Every probe step enters the Organization block with no failure          *)
(* recorded; while the probe is the latest call no failure is recorded and *)
(* the run has not aborted; after a failed probe an Organization is        *)
(* submitted when there is one.                                            *)
(***************************************************************************)
ProbeFailed == last.op = "search" /\ (last.raised \/ last.answer # "Bundle")

OrganizationSubmitted == \E r \in submitted : r.resourceType = "Organization"

C30_ProbeFailureIgnored ==
    /\ [](ProbeFailed => failures = <<>> /\ pc # "aborted" /\ reported = {})
    /\ [][pc = "probe" =>
            /\ pc' = "publish" /\ PublishSteps[step'] = Crt("Organization", "clinics")
            /\ idx' = 1 /\ UNCHANGED <<failures, store, submitted, fhir_bundle>>]_vars
    /\ (ProbeFailed /\ clinics # <<>>) ~> OrganizationSubmitted

\* the search has raised and the publisher is at the first Organization
C30_Witness ==
    /\ last.op = "search" /\ last.raised
    /\ pc = "publish" /\ step = 1 /\ idx = 1 /\ clinics # <<>>

====
